---- MODULE Spec2Model ----
(***************************************************************************)
(* HMAC-SHA256 Feistel network in a CFB-like chaining mode.                *)
(*                                                                         *)
(* feistel.ts : hmacFeistelForward / hmacFeistelBackward                    *)
(* index.ts   : toBlockStream, hmacEncryptBlock, hmacEncrypt, hmacDecrypt   *)
(*                                                                         *)
(* Buffers are sequences of bytes (0..255).  The block size (64) and the    *)
(* key size (32) are the program's own.  HMAC-SHA256 is a library call      *)
(* (node:crypto): it is represented by a family of deterministic keyed      *)
(* mixing functions, one member of which is fixed per behaviour (prf), so   *)
(* that nothing checked here rests on one particular digest.                *)
(***************************************************************************)
EXTENDS Integers, Sequences, FiniteSets, TLC

\* ------------------------------------------------------------------------
\* Program constants
\* ------------------------------------------------------------------------
keyLength == 32
hmacBlockSize == 32
keySize == 32
blockSize == 64
Rounds == 16

\* ------------------------------------------------------------------------
\* Bounds of the model
\* ------------------------------------------------------------------------
MaxChunks == 2

\* ------------------------------------------------------------------------
\* Bytes and buffers
\* ------------------------------------------------------------------------
RECURSIVE BitXor(_, _)
BitXor(a, b) ==
  IF a = 0 THEN b
  ELSE IF b = 0 THEN a
  ELSE (((a % 2) + (b % 2)) % 2) + 2 * BitXor(a \div 2, b \div 2)

XorTab == [a \in 0..255 |-> [b \in 0..255 |-> BitXor(a, b)]]

\* l[j] ^ hmacArray[j] (the result is stored in a Uint8Array)
XorByte(a, b) == XorTab[a][b]

\* A buffer given by its bytes, stored as a sequence
Buf(f) == f \o <<>>

\* const x = v; F(x): v is computed once and its value given to F
Const(v, F(_)) == CHOOSE y \in {F(x) : x \in {v}} : TRUE

\* Buffer.alloc(n, v)
Fill(n, v) == Buf([i \in 1..n |-> v])

\* s.slice(from, to) / s.subarray(from, to), 0-based, to exclusive
Slice(s, from, to) ==
  Buf([i \in 1..((IF to < Len(s) THEN to ELSE Len(s)) - from) |-> s[from + i]])

\* ------------------------------------------------------------------------
\* HMAC-SHA256 (node:crypto createHmac("sha256", k).update(m).digest()):
\* a deterministic function of key and message giving 32 bytes.
\* ------------------------------------------------------------------------
RECURSIVE Absorb(_, _, _)
Absorb(s, lo, hi) ==
  IF lo > hi THEN 0
  ELSE IF lo = hi THEN ((s[lo] + 1) * ((lo * lo) + (3 * lo) + 7)) % 65521
  ELSE Const((lo + hi) \div 2, LAMBDA mid :
         (Absorb(s, lo, mid) + Absorb(s, mid + 1, hi)) % 65521)

Squeeze(p, hk, hm) ==
  Buf([j \in 1..hmacBlockSize |->
        (((hm + (hk * p)) * ((2 * j) + 1)) + ((hm \div 7) * j) + ((hk + hm) \div (j + 1)) + p) % 256])

Hmac(p, k, m) ==
  Const(Absorb(k, 1, Len(k)) + Len(k), LAMBDA hk :
    Const(Absorb(m, 1, Len(m)) + (13 * Len(m)), LAMBDA hm : Squeeze(p, hk, hm)))

\* ------------------------------------------------------------------------
\* feistel.ts
\* ------------------------------------------------------------------------
RoundKey(p, inputKey, i) == Hmac(p, inputKey, <<i>>)

ForwardRound(p, inputKey, i, lr) ==
  LET l == lr[1]
      r == lr[2]
  IN  Const(RoundKey(p, inputKey, i), LAMBDA roundKey :
        Const(Hmac(p, roundKey, r), LAMBDA hmacArray :
          <<r, Buf([j \in 1..Len(l) |-> XorByte(l[j], hmacArray[j])])>>))

\* the round function taken of r, as in the forward direction
BackwardRound_HmacOfR(p, inputKey, i, lr) ==
  LET l == lr[1]
      r == lr[2]
      hmacArray == Hmac(p, RoundKey(p, inputKey, i), r)
      newL == Buf([j \in 1..Len(r) |-> XorByte(r[j], hmacArray[j])])
  IN  <<newL, l>>

BackwardRound(p, inputKey, i, lr) ==
  LET l == lr[1]
      r == lr[2]
      hmacArray == Hmac(p, RoundKey(p, inputKey, i), l)
      newL == Buf([j \in 1..Len(r) |-> XorByte(r[j], hmacArray[j])])
  IN  <<newL, l>>

RECURSIVE ForwardLoop(_, _, _, _)
ForwardLoop(p, inputKey, i, lr) ==
  IF i < Rounds
    THEN Const(ForwardRound(p, inputKey, i, lr), LAMBDA next : ForwardLoop(p, inputKey, i + 1, next))
    ELSE lr

RECURSIVE BackwardLoop(_, _, _, _)
BackwardLoop(p, inputKey, i, lr) ==
  IF i >= 0 THEN BackwardLoop(p, inputKey, i - 1, BackwardRound(p, inputKey, i, lr))
  ELSE lr

\* the key length left unchecked
FeistelThrows_NoKeyCheck(inputKey, inputBlock) ==
  Len(inputBlock) # hmacBlockSize * 2

FeistelThrows(inputKey, inputBlock) ==
  Len(inputKey) # keyLength \/ Len(inputBlock) # hmacBlockSize * 2

hmacFeistelForward(p, inputKey, inputBlock) ==
  LET halfSize == (hmacBlockSize * 2) \div 2
  IN  Const(<<Slice(inputBlock, 0, halfSize), Slice(inputBlock, halfSize, hmacBlockSize * 2)>>,
        LAMBDA halves : Const(ForwardLoop(p, inputKey, 0, halves), LAMBDA lr : lr[1] \o lr[2]))

hmacFeistelBackward(p, inputKey, inputBlock) ==
  LET halfSize == (hmacBlockSize * 2) \div 2
      lr == BackwardLoop(p, inputKey, Rounds - 1,
              <<Slice(inputBlock, 0, halfSize), Slice(inputBlock, halfSize, hmacBlockSize * 2)>>)
  IN  lr[1] \o lr[2]

\* ------------------------------------------------------------------------
\* index.ts: toBlockStream
\*   tbs: "idle"  not created
\*        "pull"  at `for await`, about to request the next chunk (line 10)
\*        "loop"  at the `while` condition (line 15)
\*        "yield" suspended at `yield accumulator.subarray(0, bufferSize)` (16)
\*        "tail"  input exhausted, at `if (accumulator.length > 0)` (line 22)
\*        "yieldTail" suspended at `yield accumulator` (line 23)
\*        "done"  returned
\* ------------------------------------------------------------------------
\* the chunk replaces the accumulator instead of being appended to it
Accumulate_Replace(accumulator, chunk) == chunk

\* accumulator = Buffer.concat([accumulator, chunk])
Accumulate(accumulator, chunk) == accumulator \o chunk

\* while (accumulator.length >= bufferSize)
\* `>` in place of `>=`: a buffer of exactly one block is not emitted
HasFullBlock_Strict(accumulator, bufferSize) == Len(accumulator) > bufferSize

HasFullBlock(accumulator, bufferSize) == Len(accumulator) >= bufferSize

\* subarray(bufferSize - 1): the last byte of the emitted block is kept
Remainder_KeepsLastByte(accumulator, bufferSize) ==
  Slice(accumulator, bufferSize - 1, Len(accumulator))

\* the emitted block is not removed from the accumulator
Remainder_NoShrink(accumulator, bufferSize) == accumulator

\* accumulator = accumulator.subarray(bufferSize)
Remainder(accumulator, bufferSize) == Slice(accumulator, bufferSize, Len(accumulator))

\* the value of the pending yield
TbsBlock(g) ==
  IF g.tbs = "yield" THEN Slice(g.acc, 0, blockSize) ELSE g.acc

\* the consumer's next() on a suspended toBlockStream
TbsResumed(g) ==
  IF g.tbs = "yield"
    THEN [g EXCEPT !.acc = Remainder(g.acc, blockSize), !.tbs = "loop"]
    ELSE [g EXCEPT !.tbs = "done"]

\* ------------------------------------------------------------------------
\* index.ts: hmacEncryptBlock
\* ------------------------------------------------------------------------
\* plaintext[i] of a Buffer: undefined past its end, 0 under ^
ByteAt(buffer, i) == IF i <= Len(buffer) THEN buffer[i] ELSE 0

\* the result allocated with the key size
EncryptedLength_KeySize == keySize

\* const encrypted = Buffer.alloc(blockSize)
EncryptedLength == blockSize

XorInto(encryptedIV, plaintext) ==
  Buf([i \in 1..EncryptedLength |-> XorByte(ByteAt(encryptedIV, i), ByteAt(plaintext, i))])

hmacEncryptBlock(p, key, iv, plaintext) ==
  Const(hmacFeistelForward(p, key, iv), LAMBDA encryptedIV : XorInto(encryptedIV, plaintext))

\* console.assert only logs: the lines of the assertions of hmacEncryptBlock
\* that do not hold
BlockAsserts(key, iv, plaintext) ==
  (IF Len(key) = keySize THEN {} ELSE {45})
    \cup (IF Len(iv) = blockSize THEN {} ELSE {46})
    \cup (IF Len(plaintext) = blockSize THEN {} ELSE {47})

\* the message of the Error hmacFeistelForward throws
FeistelError(inputKey, inputBlock) ==
  IF Len(inputKey) # keyLength THEN "Key must be 32 length" ELSE "Key must be 64 length"

\* ------------------------------------------------------------------------
\* index.ts: padding
\* ------------------------------------------------------------------------
\* the short block filled up with zero bytes
Pad_Zero(block) ==
  IF Len(block) < blockSize
    THEN block \o Fill(blockSize - Len(block), 0)
    ELSE block

\* lines 98-106
Pad(block) ==
  IF Len(block) < blockSize
    THEN block \o Fill(blockSize - Len(block), blockSize - Len(block))
    ELSE block

\* line 118
paddingBlock == Fill(blockSize, blockSize)

\* line 152: lastDecypted.every((byte) => byte === blockSize)
isPaddingBlock(lastDecypted) == \A i \in 1..Len(lastDecypted) : lastDecypted[i] = blockSize

\* line 159
padValueOf(lastDecypted) == lastDecypted[Len(lastDecypted)]

\* line 160
PadValueInRange(padValue) == padValue > 0 /\ padValue < blockSize

\* only the last byte looked at
isValidPadding_LastByteOnly(lastDecypted, padValue) ==
  lastDecypted[Len(lastDecypted)] = padValue

\* lines 162-169
isValidPadding(lastDecypted, padValue) ==
  \A i \in (Len(lastDecypted) - padValue + 1)..Len(lastDecypted) : lastDecypted[i] = padValue

\* lines 151-179: what hmacDecrypt yields for the held block, <<>> if nothing
Unpadded(lastDecypted) ==
  IF isPaddingBlock(lastDecypted) THEN <<>>
  ELSE IF PadValueInRange(padValueOf(lastDecypted))
            /\ isValidPadding(lastDecypted, padValueOf(lastDecypted))
    THEN <<Slice(lastDecypted, 0, Len(lastDecypted) - padValueOf(lastDecypted))>>
    ELSE <<lastDecypted>>

\* ------------------------------------------------------------------------
\* Inputs
\* ------------------------------------------------------------------------
Ramp(n, seed) == Buf([i \in 1..n |-> ((seed * 37) + (i * 11)) % 256])

Prfs == {1, 2}

GoodKey == Ramp(32, 0)
OtherKey == Ramp(32, 1)
BadKey == Ramp(31, 0)
GoodIV == Ramp(64, 4)
OtherIV == Ramp(64, 5)
BadIV == Ramp(63, 4)

\* (key, iv) of the first call
Creds == {<<GoodKey, GoodIV>>, <<BadKey, GoodIV>>, <<GoodKey, BadIV>>}

\* (key, iv) of a decryption of the first call's output
DecryptCreds(k, v) ==
  {<<k, v>>, <<OtherKey, v>>, <<k, OtherIV>>, <<BadKey, v>>, <<k, BadIV>>}

Plaintexts ==
  {Fill(0, 0), Fill(1, 65), Fill(63, 1), Fill(64, 64), Fill(65, 1), Fill(128, 64), Ramp(200, 9)}

CutPoints == {0, 63, 64, 128}

\* the chunk sequences of at most n chunks whose concatenation is bytes,
\* cut at the cut points
RECURSIVE Chunkings(_, _)
Chunkings(bytes, n) ==
  IF n = 0 THEN (IF Len(bytes) = 0 THEN {<<>>} ELSE {})
  ELSE (IF Len(bytes) = 0 THEN {<<>>} ELSE {})
       \cup UNION { { <<Slice(bytes, 0, c)>> \o rest :
                         rest \in Chunkings(Slice(bytes, c, Len(bytes)), n - 1) } :
                     c \in {Len(bytes)} \cup {d \in CutPoints : d <= Len(bytes)} }

RECURSIVE Concat(_)
Concat(chunks) ==
  IF Len(chunks) = 0 THEN <<>> ELSE Head(chunks) \o Concat(Tail(chunks))

\* ------------------------------------------------------------------------
\* State
\* ------------------------------------------------------------------------
VARIABLES
  prf,      \* which member of the HMAC family this behaviour uses
  plain,    \* the plaintext bytes given to the first call
  gen,      \* the generator objects: gen[1] the first call, gen[2] the second
  second,   \* what the second call is
  fz        \* a direct use of feistel.ts: key, block, stage, out

vars == <<prf, plain, gen, second, fz>>

Calls == {1, 2}

Idle ==
  [kind |-> "none", key |-> <<>>, iv |-> <<>>, stream |-> <<>>, given |-> <<>>,
   acc |-> <<>>, tbs |-> "idle", pc |-> "idle",
   lastBlock |-> <<>>, lastBlockWasFullSize |-> FALSE, wasFullSize |-> FALSE,
   encrypted |-> <<>>, lastDecypted |-> <<>>, out |-> <<>>,
   logged |-> {}, error |-> "",
   blocks |-> <<>>,   \* history: the blocks toBlockStream has yielded
   passed |-> {}]     \* history: <<key length, block length>> given to hmacFeistelForward

\* hmacEncrypt(key, iv, stream) / hmacDecrypt(key, iv, stream): the generator
\* object, its body not yet started
NewCall(kind, key, iv, stream) ==
  [Idle EXCEPT !.kind = kind, !.key = key, !.iv = iv, !.stream = stream,
               !.given = stream, !.pc = "init"]

NoFeistel == [key |-> <<>>, block |-> <<>>, stage |-> "none", fwd |-> <<>>, out |-> <<>>]

Init ==
  /\ prf \in Prfs
  /\ plain \in Plaintexts
  /\ \E cr \in Creds, chunks \in Chunkings(plain, MaxChunks) :
       gen = [c \in Calls |-> IF c = 1 THEN NewCall("encrypt", cr[1], cr[2], chunks) ELSE Idle]
  /\ second = "none"
  /\ fz = NoFeistel

\* ------------------------------------------------------------------------
\* hmacEncrypt / hmacDecrypt: the first next() runs the body up to the
\* `for await` (lines 86-92, 135-141)
\* ------------------------------------------------------------------------
EntryAsserts(g) ==
  (IF Len(g.key) = keySize THEN {} ELSE {IF g.kind = "encrypt" THEN 86 ELSE 135})
    \cup (IF Len(g.iv) = blockSize THEN {} ELSE {IF g.kind = "encrypt" THEN 87 ELSE 136})

\* the chain state kept in one place for all calls
Put_SharedChain(c, g) ==
  [d \in Calls |-> IF d = c THEN g ELSE [gen[d] EXCEPT !.lastBlock = g.lastBlock]]

\* lastBlock, lastBlockWasFullSize, lastDecypted and accumulator are locals of
\* the generator functions (lines 8, 89-90, 138-139): a step of call c
\* writes the locals of call c
Put(c, g) == [gen EXCEPT ![c] = g]

\* the chain starts from the key instead of the IV
StartStep_ChainFromKey(g) ==
  [g EXCEPT !.logged = EntryAsserts(g),
            !.lastBlock = g.key,
            !.lastBlockWasFullSize = FALSE,
            !.lastDecypted = <<>>,
            !.acc = <<>>,
            !.tbs = "pull",
            !.pc = "await"]

StartStep(g) ==
  [g EXCEPT !.logged = EntryAsserts(g),
            !.lastBlock = g.iv,
            !.lastBlockWasFullSize = FALSE,
            !.lastDecypted = <<>>,
            !.acc = <<>>,
            !.tbs = "pull",
            !.pc = "await"]

Start(c) ==
  /\ gen[c].pc = "init"
  /\ gen' = Put(c, StartStep(gen[c]))
  /\ UNCHANGED <<prf, plain, second, fz>>

\* ------------------------------------------------------------------------
\* toBlockStream, run while its consumer awaits the next block
\* ------------------------------------------------------------------------
TbsPullStep(g) ==
  [g EXCEPT !.acc = Accumulate(g.acc, Head(g.stream)),
            !.stream = Tail(g.stream),
            !.tbs = "loop"]

TbsPull(c) ==
  /\ gen[c].pc = "await" /\ gen[c].tbs = "pull"
  /\ Len(gen[c].stream) > 0
  /\ gen' = Put(c, TbsPullStep(gen[c]))
  /\ UNCHANGED <<prf, plain, second, fz>>

TbsExhausted(c) ==
  /\ gen[c].pc = "await" /\ gen[c].tbs = "pull"
  /\ Len(gen[c].stream) = 0
  /\ gen' = Put(c, [gen[c] EXCEPT !.tbs = "tail"])
  /\ UNCHANGED <<prf, plain, second, fz>>

TbsLoopStep(g) ==
  IF HasFullBlock(g.acc, blockSize)
    THEN [g EXCEPT !.tbs = "yield", !.blocks = Append(@, Slice(g.acc, 0, blockSize))]
    ELSE [g EXCEPT !.tbs = "pull"]

TbsLoop(c) ==
  /\ gen[c].pc = "await" /\ gen[c].tbs = "loop"
  /\ gen' = Put(c, TbsLoopStep(gen[c]))
  /\ UNCHANGED <<prf, plain, second, fz>>

TbsTailStep(g) ==
  IF Len(g.acc) > 0
    THEN [g EXCEPT !.tbs = "yieldTail", !.blocks = Append(@, g.acc)]
    ELSE [g EXCEPT !.tbs = "done"]

TbsTail(c) ==
  /\ gen[c].pc = "await" /\ gen[c].tbs = "tail"
  /\ gen' = Put(c, TbsTailStep(gen[c]))
  /\ UNCHANGED <<prf, plain, second, fz>>

\* ------------------------------------------------------------------------
\* hmacEncrypt
\* ------------------------------------------------------------------------
Thrown(g, key, block) ==
  [g EXCEPT !.pc = "threw", !.error = FeistelError(key, block)]

\* lines 93-110: one block from toBlockStream, up to `yield encrypted`
EncBlockStep(p, g) ==
  LET block == TbsBlock(g)
      padded == Pad(block)
      g1 == [g EXCEPT !.logged = @ \cup (IF Len(g.lastBlock) = blockSize THEN {} ELSE {93})
                                   \cup BlockAsserts(g.key, g.lastBlock, padded),
                      !.wasFullSize = (Len(block) = blockSize),
                      !.passed = @ \cup {<<Len(g.key), Len(g.lastBlock)>>}]
  IN  IF FeistelThrows(g.key, g.lastBlock)
        THEN Thrown(g1, g.key, g.lastBlock)
        ELSE Const(hmacEncryptBlock(p, g.key, g.lastBlock, padded), LAMBDA encrypted :
               [g1 EXCEPT !.encrypted = encrypted,
                          !.out = Append(g.out, encrypted),
                          !.pc = "yield"])

EncBlock(c) ==
  /\ gen[c].kind = "encrypt"
  /\ gen[c].pc = "await" /\ gen[c].tbs \in {"yield", "yieldTail"}
  /\ gen' = Put(c, EncBlockStep(prf, gen[c]))
  /\ UNCHANGED <<prf, plain, second, fz>>

\* the chain is left at its old value after a block was yielded
EncResumeStep_KeepChain(g) ==
  TbsResumed([g EXCEPT !.lastBlockWasFullSize = g.wasFullSize, !.pc = "await"])

\* lines 112-113, then the next iteration of `for await`
EncResumeStep(g) ==
  TbsResumed([g EXCEPT !.lastBlock = g.encrypted,
                       !.lastBlockWasFullSize = g.wasFullSize,
                       !.pc = "await"])

EncResume(c) ==
  /\ gen[c].kind = "encrypt"
  /\ gen[c].pc = "yield"
  /\ gen' = Put(c, EncResumeStep(gen[c]))
  /\ UNCHANGED <<prf, plain, second, fz>>

\* lines 117-125
EncTailStep(p, g) ==
  IF g.lastBlockWasFullSize
    THEN LET g1 == [g EXCEPT !.logged = @ \cup BlockAsserts(g.key, g.lastBlock, paddingBlock),
                             !.passed = @ \cup {<<Len(g.key), Len(g.lastBlock)>>}]
         IN  IF FeistelThrows(g.key, g.lastBlock)
               THEN Thrown(g1, g.key, g.lastBlock)
               ELSE [g1 EXCEPT !.out = Append(g.out, hmacEncryptBlock(p, g.key, g.lastBlock, paddingBlock)),
                               !.pc = "yieldPad"]
    ELSE [g EXCEPT !.pc = "done"]

EncTail(c) ==
  /\ gen[c].kind = "encrypt"
  /\ gen[c].pc = "await" /\ gen[c].tbs = "done"
  /\ gen' = Put(c, EncTailStep(prf, gen[c]))
  /\ UNCHANGED <<prf, plain, second, fz>>

\* line 127, return
EncEnd(c) ==
  /\ gen[c].kind = "encrypt"
  /\ gen[c].pc = "yieldPad"
  /\ gen' = Put(c, [gen[c] EXCEPT !.pc = "done"])
  /\ UNCHANGED <<prf, plain, second, fz>>

\* ------------------------------------------------------------------------
\* hmacDecrypt
\* ------------------------------------------------------------------------
\* the chain stays at the IV: lastBlock = block is left out
DecStep_KeepChain(p, g) ==
  LET block == TbsBlock(g)
      g1 == [g EXCEPT !.passed = @ \cup {<<Len(g.key), Len(g.lastBlock)>>}]
  IN  IF FeistelThrows(g.key, g.lastBlock)
        THEN Thrown(g1, g.key, g.lastBlock)
        ELSE TbsResumed([g1 EXCEPT !.lastDecypted = <<hmacEncryptBlock(p, g.key, g.lastBlock, block)>>,
                                   !.pc = "await"])

\* lines 144-147, then the next iteration of `for await`
DecStep(p, g) ==
  LET block == TbsBlock(g)
      g1 == [g EXCEPT !.logged = @ \cup (IF Len(g.lastBlock) = blockSize THEN {} ELSE {144})
                                   \cup BlockAsserts(g.key, g.lastBlock, block),
                      !.passed = @ \cup {<<Len(g.key), Len(g.lastBlock)>>}]
  IN  IF FeistelThrows(g.key, g.lastBlock)
        THEN Thrown(g1, g.key, g.lastBlock)
        ELSE Const(hmacEncryptBlock(p, g.key, g.lastBlock, block), LAMBDA decrypted :
               TbsResumed([g1 EXCEPT !.lastDecypted = <<decrypted>>,
                                     !.lastBlock = block,
                                     !.pc = "await"]))

\* line 142: if (lastDecypted) yield lastDecypted
DecBlockStep(p, g) ==
  IF g.lastDecypted # <<>>
    THEN [g EXCEPT !.out = Append(g.out, g.lastDecypted[1]), !.pc = "yield"]
    ELSE DecStep(p, g)

DecBlock(c) ==
  /\ gen[c].kind = "decrypt"
  /\ gen[c].pc = "await" /\ gen[c].tbs \in {"yield", "yieldTail"}
  /\ gen' = Put(c, DecBlockStep(prf, gen[c]))
  /\ UNCHANGED <<prf, plain, second, fz>>

DecResume(c) ==
  /\ gen[c].kind = "decrypt"
  /\ gen[c].pc = "yield"
  /\ gen' = Put(c, DecStep(prf, gen[c]))
  /\ UNCHANGED <<prf, plain, second, fz>>

\* lines 151-179
DecTailStep(g) ==
  IF g.lastDecypted # <<>> /\ Unpadded(g.lastDecypted[1]) # <<>>
    THEN [g EXCEPT !.out = g.out \o Unpadded(g.lastDecypted[1]), !.pc = "yieldLast"]
    ELSE [g EXCEPT !.pc = "done"]

DecTail(c) ==
  /\ gen[c].kind = "decrypt"
  /\ gen[c].pc = "await" /\ gen[c].tbs = "done"
  /\ gen' = Put(c, DecTailStep(gen[c]))
  /\ UNCHANGED <<prf, plain, second, fz>>

\* lines 173 / 181, return
DecEnd(c) ==
  /\ gen[c].kind = "decrypt"
  /\ gen[c].pc = "yieldLast"
  /\ gen' = Put(c, [gen[c] EXCEPT !.pc = "done"])
  /\ UNCHANGED <<prf, plain, second, fz>>

\* ------------------------------------------------------------------------
\* The caller (index.test.ts): once the first call has ended, its blocks are
\* decrypted (all of them, or all but the last), or the same plaintext is
\* encrypted again in one chunk
\* ------------------------------------------------------------------------
Finished(g) == g.pc \in {"done", "threw"}

DropLast(s) == IF Len(s) = 0 THEN s ELSE SubSeq(s, 1, Len(s) - 1)

OneChunk(bytes) == IF Len(bytes) = 0 THEN <<>> ELSE <<bytes>>

ThenDecrypt ==
  /\ Finished(gen[1]) /\ gen[2].pc = "idle"
  /\ \E cr \in DecryptCreds(gen[1].key, gen[1].iv), cut \in BOOLEAN :
       /\ cut => Len(gen[1].out) > 0
       /\ second' = (IF cut THEN "decrypt-truncated" ELSE "decrypt")
       /\ gen' = [gen EXCEPT ![2] =
            NewCall("decrypt", cr[1], cr[2], IF cut THEN DropLast(gen[1].out) ELSE gen[1].out)]
  /\ UNCHANGED <<prf, plain, fz>>

\* the ciphertext bytes as a stream delivers them: in one chunk, split off
\* the block boundaries (with an empty chunk), or cut short by one byte
Rechunked(bytes) ==
  { <<bytes>>,
    <<Slice(bytes, 0, 1), Slice(bytes, 1, Len(bytes))>>,
    <<Slice(bytes, 0, blockSize + 1), <<>>, Slice(bytes, blockSize + 1, Len(bytes))>>,
    <<Slice(bytes, 0, Len(bytes) - 1)>> }

ThenDecryptBytes ==
  /\ Finished(gen[1]) /\ gen[2].pc = "idle"
  /\ Len(gen[1].out) > 0
  /\ \E stream \in Rechunked(Concat(gen[1].out)) :
       gen' = [gen EXCEPT ![2] = NewCall("decrypt", gen[1].key, gen[1].iv, stream)]
  /\ second' = "decrypt-bytes"
  /\ UNCHANGED <<prf, plain, fz>>

ThenEncrypt ==
  /\ Finished(gen[1]) /\ gen[2].pc = "idle"
  /\ \E v \in {gen[1].iv, OtherIV} :
       gen' = [gen EXCEPT ![2] = NewCall("encrypt", gen[1].key, v, OneChunk(plain))]
  /\ second' = "encrypt"
  /\ UNCHANGED <<prf, plain, fz>>

Next ==
  \/ \E c \in Calls : Start(c)
  \/ \E c \in Calls : TbsPull(c)
  \/ \E c \in Calls : TbsExhausted(c)
  \/ \E c \in Calls : TbsLoop(c)
  \/ \E c \in Calls : TbsTail(c)
  \/ \E c \in Calls : EncBlock(c)
  \/ \E c \in Calls : EncResume(c)
  \/ \E c \in Calls : EncTail(c)
  \/ \E c \in Calls : EncEnd(c)
  \/ \E c \in Calls : DecBlock(c)
  \/ \E c \in Calls : DecResume(c)
  \/ \E c \in Calls : DecTail(c)
  \/ \E c \in Calls : DecEnd(c)
  \/ ThenDecrypt
  \/ ThenDecryptBytes
  \/ ThenEncrypt

Spec == Init /\ [][Next]_vars

\* ------------------------------------------------------------------------
\* One call pulled to completion by `for await (const block of ...)` with
\* nothing else running: the step the call takes from each position
\* ------------------------------------------------------------------------
Advance(p, g) ==
  CASE g.pc = "init" -> StartStep(g)
    [] g.pc = "await" /\ g.tbs = "pull" ->
         IF Len(g.stream) > 0 THEN TbsPullStep(g) ELSE [g EXCEPT !.tbs = "tail"]
    [] g.pc = "await" /\ g.tbs = "loop" -> TbsLoopStep(g)
    [] g.pc = "await" /\ g.tbs = "tail" -> TbsTailStep(g)
    [] g.pc = "await" /\ g.tbs \in {"yield", "yieldTail"} ->
         IF g.kind = "encrypt" THEN EncBlockStep(p, g) ELSE DecBlockStep(p, g)
    [] g.pc = "await" /\ g.tbs = "done" ->
         IF g.kind = "encrypt" THEN EncTailStep(p, g) ELSE DecTailStep(g)
    [] g.pc = "yield" ->
         IF g.kind = "encrypt" THEN EncResumeStep(g) ELSE DecStep(p, g)
    [] g.pc \in {"yieldPad", "yieldLast"} -> [g EXCEPT !.pc = "done"]
    [] OTHER -> g

RECURSIVE RunAlone(_, _)
RunAlone(p, g) ==
  IF g.pc \in {"idle", "done", "threw"} THEN g ELSE RunAlone(p, Advance(p, g))

\* ------------------------------------------------------------------------
\* Two calls on unrelated streams whose steps interleave in any order
\* ------------------------------------------------------------------------
PairStreams == { <<Fill(1, 65), Fill(64, 64)>>, <<Ramp(64, 3)>> }

PairKinds == {<<"encrypt", "encrypt">>, <<"encrypt", "decrypt">>, <<"decrypt", "decrypt">>}

PairCreds == {<<GoodKey, GoodIV>>, <<OtherKey, OtherIV>>}

InitPair ==
  /\ prf \in Prfs
  /\ plain = <<>>
  /\ second = "pair"
  /\ fz = NoFeistel
  /\ \E k \in PairKinds, s1 \in PairStreams, s2 \in PairStreams, cr \in PairCreds :
       gen = [c \in Calls |->
                IF c = 1 THEN NewCall(k[1], GoodKey, GoodIV, s1)
                         ELSE NewCall(k[2], cr[1], cr[2], s2)]

Step(c) ==
  \/ Start(c)
  \/ TbsPull(c)
  \/ TbsExhausted(c)
  \/ TbsLoop(c)
  \/ TbsTail(c)
  \/ EncBlock(c)
  \/ EncResume(c)
  \/ EncTail(c)
  \/ EncEnd(c)
  \/ DecBlock(c)
  \/ DecResume(c)
  \/ DecTail(c)
  \/ DecEnd(c)

NextPair == \E c \in Calls : Step(c)

SpecPair == InitPair /\ [][NextPair]_vars

\* ------------------------------------------------------------------------
\* One call whose consumer keeps pulling (`for await` up to the end): while
\* the call can take a step it eventually takes one
\* ------------------------------------------------------------------------
SoloStreams == PairStreams \cup { <<>>, <<Fill(0, 0), Ramp(200, 9)>>, <<Fill(63, 1), Fill(65, 1)>> }

InitSolo ==
  /\ prf \in Prfs
  /\ plain = <<>>
  /\ second = "solo"
  /\ fz = NoFeistel
  /\ \E k \in {"encrypt", "decrypt"}, s \in SoloStreams, cr \in PairCreds :
       gen = [c \in Calls |-> IF c = 1 THEN NewCall(k, cr[1], cr[2], s) ELSE Idle]

NextSolo == Step(1)

SpecSolo == InitSolo /\ [][NextSolo]_vars /\ WF_vars(NextSolo)

\* ------------------------------------------------------------------------
\* feistel.ts used directly (feistel.test.ts): forward, then backward
\* ------------------------------------------------------------------------
FeistelKeys == {Ramp(32, 0), Ramp(32, 1), Fill(32, 0), Ramp(31, 0)}

FeistelBlocks ==
  {Ramp(64, 2), Ramp(64, 3), Fill(64, 0), Fill(64, 64), Fill(64, 255), Ramp(63, 2), Ramp(65, 2)}

InitFeistel ==
  /\ prf \in Prfs
  /\ plain = <<>>
  /\ gen = [c \in Calls |-> Idle]
  /\ second = "none"
  /\ \E k \in FeistelKeys, b \in FeistelBlocks :
       fz = [key |-> k, block |-> b, stage |-> "input", fwd |-> <<>>, out |-> <<>>]

CallForward ==
  /\ fz.stage = "input"
  /\ fz' = IF FeistelThrows(fz.key, fz.block)
             THEN [fz EXCEPT !.stage = "threw"]
             ELSE [fz EXCEPT !.stage = "forward", !.fwd = hmacFeistelForward(prf, fz.key, fz.block)]
  /\ UNCHANGED <<prf, plain, gen, second>>

CallBackward ==
  /\ fz.stage = "forward"
  /\ fz' = IF FeistelThrows(fz.key, fz.fwd)
             THEN [fz EXCEPT !.stage = "threw"]
             ELSE [fz EXCEPT !.stage = "backward", !.out = hmacFeistelBackward(prf, fz.key, fz.fwd)]
  /\ UNCHANGED <<prf, plain, gen, second>>

NextFeistel == CallForward \/ CallBackward

SpecFeistel == InitFeistel /\ [][NextFeistel]_vars

\* ------------------------------------------------------------------------
\* Properties
\* ------------------------------------------------------------------------
ValidCreds(g) == Len(g.key) = keySize /\ Len(g.iv) = blockSize

SameCreds(g, h) == g.key = h.key /\ g.iv = h.iv

\* C1: with a 32-byte key and a 64-byte IV, decrypting all the blocks of
\* hmacEncrypt under the same key and IV yields blocks whose concatenation is
\* the plaintext, whatever its length and chunking.
C1_RoundTrip ==
  (second = "decrypt" /\ ValidCreds(gen[1]) /\ SameCreds(gen[1], gen[2]) /\ Finished(gen[2]))
    => /\ gen[1].pc = "done" /\ gen[2].pc = "done"
       /\ Concat(gen[2].out) = plain

C1_Witness ==
  /\ second = "decrypt" /\ ValidCreds(gen[1]) /\ SameCreds(gen[1], gen[2])
  /\ gen[2].pc = "done"
  /\ Len(gen[1].given) > 1 /\ Len(plain) > blockSize /\ Len(plain) % blockSize # 0
  /\ Len(gen[2].out) > 1

\* C2: with a valid key and IV hmacEncrypt yields exactly
\* floor(len(P)/64) + 1 blocks, one block for the empty plaintext included.
C2_BlockCount ==
  \A c \in Calls :
    (gen[c].kind = "encrypt" /\ ValidCreds(gen[c]) /\ Finished(gen[c]))
      => /\ gen[c].pc = "done"
         /\ Len(gen[c].out) = (Len(plain) \div blockSize) + 1

\* C3: hmacFeistelBackward(key, hmacFeistelForward(key, b)) = b for every
\* 32-byte key and 64-byte block b.
C3_FeistelInverse ==
  (Len(fz.key) = keyLength /\ Len(fz.block) = blockSize /\ fz.stage \notin {"input", "forward"})
    => fz.stage = "backward" /\ fz.out = fz.block

C3_Witness ==
  /\ fz.stage = "backward" /\ fz.out = fz.block
  /\ fz.fwd # fz.block /\ Len(fz.fwd) = blockSize

\* C4: a call with a key that is not 32 bytes or an IV that is not 64 bytes
\* ends in a fatal error, raised before any block is processed (nothing has
\* been taken from the input stream).
C4_FatalBeforeAnyBlock ==
  \A c \in Calls :
    (~ValidCreds(gen[c]) /\ Finished(gen[c]))
      => /\ gen[c].pc = "threw"
         /\ gen[c].stream = gen[c].given /\ gen[c].acc = <<>>

FinalPlain(p, g) ==
  hmacEncryptBlock(p, g.key,
    IF Len(g.given) = 1 THEN g.iv ELSE g.given[Len(g.given) - 1],
    g.given[Len(g.given)])

AllMarker(b) == \A i \in 1..blockSize : b[i] = 64

StripsTo(b, v) ==
  /\ 1 <= v /\ v < 64
  /\ \A i \in 1..blockSize : i > blockSize - v => b[i] = v

FinalEmission(b, n, out) ==
  IF AllMarker(b) THEN Len(out) = n - 1
  ELSE IF StripsTo(b, b[blockSize])
    THEN Len(out) = n /\ out[n] = SubSeq(b, 1, blockSize - b[blockSize])
    ELSE Len(out) = n /\ out[n] = b

\* C6: hmacDecrypt with a valid key and IV, given 64-byte ciphertext blocks
\* (from any key), raises no error; with no block given it emits nothing;
\* otherwise the last plaintext block is dropped if it is all 64, emitted
\* without its last v bytes if these are v bytes of value v, 1 <= v < 64, and
\* emitted as it is otherwise.
C6_FinalBlock ==
  (second \in {"decrypt", "decrypt-truncated"} /\ ValidCreds(gen[2]))
    => /\ gen[2].pc # "threw" /\ gen[2].error = ""
       /\ gen[2].pc \in {"yieldLast", "done"} =>
            IF Len(gen[2].given) = 0 THEN gen[2].out = <<>>
            ELSE FinalEmission(FinalPlain(prf, gen[2]), Len(gen[2].given), gen[2].out)

C6_Witness ==
  /\ second = "decrypt" /\ ValidCreds(gen[2]) /\ gen[2].key # gen[1].key
  /\ gen[2].pc = "done"
  /\ Len(gen[2].given) > 1
  /\ Len(gen[2].out) = Len(gen[2].given)
  /\ gen[2].out[Len(gen[2].out)] = FinalPlain(prf, gen[2])
  /\ FinalPlain(prf, gen[2])[blockSize] \in 1..63

\* C7: every block hmacEncrypt yields is exactly 64 bytes long.
C7_BlocksAre64 ==
  \A c \in Calls :
    gen[c].kind = "encrypt" => \A i \in 1..Len(gen[c].out) : Len(gen[c].out[i]) = 64

C7_Witness ==
  /\ gen[1].pc = "done" /\ Len(gen[1].out) = 2
  /\ Len(plain) = 65 /\ Len(gen[1].given) = 2
  /\ gen[2].kind = "encrypt" /\ gen[2].pc = "done" /\ Len(gen[2].out) = 2

\* C8: for a fixed valid key and plaintext, two different 64-byte IVs give
\* different ciphertext sequences.
C8_IVSensitivity ==
  (second = "encrypt" /\ ValidCreds(gen[1]) /\ ValidCreds(gen[2])
     /\ gen[1].iv # gen[2].iv /\ Finished(gen[1]) /\ Finished(gen[2]))
    => gen[1].out # gen[2].out

Alone(g) == RunAlone(prf, NewCall(g.kind, g.key, g.iv, g.given))

C11_Independence ==
  /\ []((\A d \in Calls : Finished(gen[d])) =>
          \A c \in Calls : /\ gen[c].out = Alone(gen[c]).out
                           /\ gen[c].pc = Alone(gen[c]).pc)
  /\ [][\A c \in Calls : gen'[c] # gen[c] => (\A d \in Calls \ {c} : gen'[d] = gen[d])]_vars

C11_Witness ==
  /\ second = "pair" /\ SameCreds(gen[1], gen[2])
  /\ gen[1].kind = "encrypt" /\ gen[2].kind = "decrypt"
  /\ gen[1].pc = "yield" /\ gen[2].pc = "yield"
  /\ Len(gen[1].out) = 1 /\ Len(gen[2].out) = 1
  /\ gen[1].lastBlock # gen[2].lastBlock

RECURSIVE LongestChunk(_)
LongestChunk(chunks) ==
  IF Len(chunks) = 0 THEN 0
  ELSE LET rest == LongestChunk(Tail(chunks))
       IN  IF Len(Head(chunks)) > rest THEN Len(Head(chunks)) ELSE rest

IsPrefix(a, b) == Len(a) <= Len(b) /\ SubSeq(b, 1, Len(a)) = a

\* C13: the blocks toBlockStream emits are, concatenated, a prefix of the
\* concatenated input chunks and, once it has finished, all of them; every
\* block but the last has exactly 64 bytes, the last between 1 and 64; no
\* block is emitted for an input of zero bytes (empty chunks included).
C13_BlockizerShape ==
  \A c \in Calls :
    LET b == gen[c].blocks
    IN  /\ IsPrefix(Concat(b), Concat(gen[c].given))
        /\ \A i \in 1..Len(b) :
             /\ Len(b[i]) >= 1 /\ Len(b[i]) <= blockSize
             /\ i < Len(b) => Len(b[i]) = blockSize
        /\ gen[c].tbs = "done" => Concat(b) = Concat(gen[c].given)
        /\ Len(Concat(gen[c].given)) = 0 => b = <<>>

C13_Witness ==
  /\ gen[1].tbs = "done"
  /\ \E i \in 1..Len(gen[1].given) : Len(gen[1].given[i]) = 0
  /\ Len(gen[1].blocks) = 2
  /\ Len(gen[1].blocks[2]) = 1
  /\ Len(gen[1].given[2]) = blockSize + 1

\* b followed by 64 - len(b) bytes of value 64 - len(b); b itself if full
PaddedBlock(b) ==
  IF Len(b) = 64 THEN b ELSE b \o [j \in 1..(64 - Len(b)) |-> 64 - Len(b)]

\* chain_{i-1}: the IV before the first block, then the previous ciphertext
ChainBefore(g, i) == IF i = 1 THEN g.iv ELSE g.out[i - 1]

XorBlocks(a, b) == [j \in 1..64 |-> XorByte(a[j], b[j])]

\* C14: with a valid key and IV, whenever hmacEncrypt yields its i-th block
\* for the i-th block b_i of the blockizer, that block is
\* pad(b_i) xor hmacFeistelForward(key, chain_{i-1}), where chain_0 is the
\* IV and chain_i the i-th ciphertext block, and pad appends 64 - len(b_i)
\* bytes of that value (between 1 and 64) to a short block; the chain
\* variable holds chain_{i-1} until the block is taken and chain_i from then
\* on: one update per yielded block.
C14_Chaining ==
  \A c \in Calls :
    (gen[c].kind = "encrypt" /\ ValidCreds(gen[c])) =>
      LET g == gen[c]
          n == Len(g.out)
      IN  /\ g.pc = "yield" =>
               /\ n = Len(g.blocks)
               /\ Len(g.blocks[n]) < 64 => (64 - Len(g.blocks[n])) \in 1..64
               /\ g.lastBlock = ChainBefore(g, n)
               /\ g.out[n] = XorBlocks(PaddedBlock(g.blocks[n]),
                                        hmacFeistelForward(prf, g.key, ChainBefore(g, n)))
          /\ g.pc = "await" => g.lastBlock = ChainBefore(g, n + 1)

C14_Witness ==
  /\ gen[1].kind = "encrypt" /\ ValidCreds(gen[1])
  /\ gen[1].pc = "yield"
  /\ Len(gen[1].out) = 4
  /\ Len(gen[1].blocks[4]) = 8
  /\ gen[1].lastBlock = gen[1].out[3]

\* the plaintext of the last block of a ciphertext stream
LastPlain(p, g) ==
  XorBlocks(g.out[Len(g.out)], hmacFeistelForward(p, g.key, ChainBefore(g, Len(g.out))))

LastWasFull(g) == Len(g.blocks) > 0 /\ Len(g.blocks[Len(g.blocks)]) = 64

\* C15: once hmacEncrypt with a valid key and IV has completed, its
\* ciphertext ends with a block whose plaintext is a padded short block (pad
\* value 1..63 in its trailing bytes) or the all-64 marker block; the marker
\* is emitted at most once, after all data blocks, and exactly when the last
\* block processed was a full 64-byte block.
C15_FinalBlockOfEncrypt ==
  \A c \in Calls :
    (gen[c].kind = "encrypt" /\ ValidCreds(gen[c]) /\ gen[c].pc = "done") =>
      LET g == gen[c]
      IN  /\ Len(g.out) >= 1
          /\ IF LastWasFull(g)
                THEN /\ Len(g.out) = Len(g.blocks) + 1
                     /\ AllMarker(LastPlain(prf, g))
                ELSE /\ Len(g.out) = Len(g.blocks)
                     /\ StripsTo(LastPlain(prf, g), 64 - Len(g.blocks[Len(g.blocks)]))

\* c_{i-1}: the IV before the first ciphertext block, then the previous one
CipherBefore(g, i) == IF i = 1 THEN g.iv ELSE g.blocks[i - 1]

\* C16: hmacDecrypt with a valid key and IV holds at most one decrypted
\* block; when it yields its i-th block unmodified, ciphertext block i+1 has
\* already been pulled and the yielded block is
\* c_i xor hmacFeistelForward(key, c_{i-1}) with c_0 the IV; until the final
\* block is handled it has yielded fewer blocks than it has pulled; every
\* yielded block other than the last of the call is 64 bytes long.
C16_Lookahead ==
  \A c \in Calls :
    (gen[c].kind = "decrypt" /\ ValidCreds(gen[c])) =>
      LET g == gen[c]
          n == Len(g.out)
      IN  /\ Len(g.lastDecypted) <= 1
          /\ g.pc \notin {"yieldLast", "done"} => (n = 0 \/ n < Len(g.blocks))
          /\ g.pc = "yield" =>
               /\ Len(g.blocks) = n + 1
               /\ g.out[n] = XorBlocks(g.blocks[n],
                                        hmacFeistelForward(prf, g.key, CipherBefore(g, n)))
          /\ \A i \in 1..n :
               (i < n \/ g.pc \notin {"yieldLast", "done"}) => Len(g.out[i]) = 64

C16_Witness ==
  /\ second = "decrypt-bytes" /\ ValidCreds(gen[2])
  /\ gen[2].pc = "yield"
  /\ Len(gen[2].given) = 1
  /\ Len(gen[2].out) = 2 /\ Len(gen[2].blocks) = 3
  /\ Len(gen[2].lastDecypted) = 1

\* C17: in a call of hmacEncrypt or hmacDecrypt with a 32-byte key and a
\* 64-byte IV, every call of hmacFeistelForward is given a 32-byte key and a
\* 64-byte block, whatever the input stream and its chunking, and the
\* length error of feistel.ts is never raised.
C17_FeistelBoundary ==
  \A c \in Calls :
    ValidCreds(gen[c]) =>
      /\ gen[c].passed \subseteq {<<32, 64>>}
      /\ gen[c].pc # "threw" /\ gen[c].error = ""

C17_Witness ==
  /\ second = "decrypt-bytes" /\ ValidCreds(gen[2])
  /\ gen[2].pc = "done"
  /\ Len(gen[2].blocks) = 3
  /\ Len(gen[2].lastBlock) = 63
  /\ gen[2].passed = {<<32, 64>>}

\* what toBlockStream owns: its position, buffer, input and emitted blocks
TbsState(g) == <<g.tbs, g.acc, g.stream, g.blocks>>

\* C18: toBlockStream asks for the next input chunk only while its buffer
\* holds fewer than 64 bytes, and it moves only in a step in which its
\* consumer, the for-await loop of hmacEncrypt or hmacDecrypt, is waiting
\* for the next block or comes back to ask for it.
C18_PullDiscipline ==
  /\ [](\A c \in Calls : gen[c].tbs = "pull" => Len(gen[c].acc) < blockSize)
  /\ [][\A c \in Calls :
          (gen[c].pc # "idle" /\ TbsState(gen'[c]) # TbsState(gen[c])) =>
            /\ gen[c].pc = "await" \/ gen'[c].pc = "await"
            /\ gen'[c].stream # gen[c].stream => Len(gen[c].acc) < blockSize]_vars

C18_Witness ==
  /\ gen[1].pc = "yield" /\ gen[1].tbs = "yield"
  /\ Len(gen[1].acc) >= 2 * blockSize
  /\ Len(gen[1].stream) > 0
  /\ Len(gen[1].out) = 1

\* the same call given the same bytes in a single chunk, pulled to the end
InOneChunk(g) ==
  RunAlone(prf, NewCall(g.kind, g.key, g.iv, OneChunk(Concat(g.given))))

\* C19: with a valid key and IV, the blocks hmacEncrypt has yielded at its
\* end are those it yields for the same plaintext bytes given in one chunk,
\* and the bytes hmacDecrypt has yielded at its end are those it yields for
\* the same ciphertext bytes given in one chunk, whether they arrived as
\* 64-byte blocks or cut anywhere else, empty chunks included.
C19_ChunkingInvariance ==
  /\ (gen[2].pc = "idle" /\ Finished(gen[1]) /\ ValidCreds(gen[1]))
       => LET one == InOneChunk(gen[1])
          IN  gen[1].out = one.out /\ gen[1].pc = one.pc
  /\ (gen[2].kind = "decrypt" /\ Finished(gen[2]) /\ ValidCreds(gen[2]))
       => LET one == InOneChunk(gen[2])
          IN  Concat(gen[2].out) = Concat(one.out) /\ gen[2].pc = one.pc

C19_Witness ==
  /\ second = "decrypt-bytes" /\ ValidCreds(gen[2])
  /\ gen[2].pc = "done"
  /\ Len(gen[1].given) = 2 /\ Len(plain) = 200
  /\ Len(gen[2].given) = 3 /\ Len(gen[2].given[2]) = 0
  /\ Concat(gen[2].out) = plain

\* C20: when its consumer keeps pulling, a call of hmacEncrypt or
\* hmacDecrypt on a finite stream with a valid key and IV eventually
\* completes, toBlockStream having finished too; each pass of the emit loop
\* of toBlockStream leaves the buffer strictly shorter than it found it.
C20_Termination ==
  /\ <>(gen[1].pc = "done" /\ gen[1].tbs = "done")
  /\ [][(gen[1].tbs = "yield" /\ gen'[1].tbs = "loop") =>
          Len(gen'[1].acc) < Len(gen[1].acc)]_vars

C20_Witness ==
  /\ second = "solo"
  /\ gen[1].kind = "decrypt"
  /\ gen[1].pc = "done" /\ gen[1].tbs = "done"
  /\ Len(gen[1].given) = 2 /\ Len(gen[1].blocks) = 4
  /\ Len(gen[1].out) = 4
  /\ gen[1].stream = <<>>

====
